---- MODULE Spec2Model ----
(***************************************************************************)
(* The crawl engine of the DNS seeder (src/dnsseed.go): the creep loop,    *)
(* its worker goroutines, the OnVersion / OnAddr listeners that share the  *)
(* two unbuffered channels onVersion and onAddr, and the shutdown flag.    *)
(* Spec is the crawl engine from the moment main waits for the interrupt;  *)
(* MainSpec is the whole process, from the start of main to its end.       *)
(* The address manager (amgr) is not part of the sources at hand; its      *)
(* operations are modelled from the specification (section 4.1).           *)
(*                                                                         *)
(* Time is counted in whole seconds.  Timestamps of the address manager    *)
(* are kept as ages (seconds elapsed since the event), saturating at the   *)
(* re-attempt interval, so that lastX = now - ageX and                     *)
(* lastSuccess <= lastAttempt  <=>  successAge >= attemptAge.              *)
(* Steps that do not block (a function call, a loop iteration) take no     *)
(* time: the clock ticks only when the creep loop and every worker are     *)
(* blocked on a timer, a channel or a wait group.                          *)
(***************************************************************************)
EXTENDS Integers, FiniteSets, Sequences, TLC

\* ------------------------------------------------------------ bounds
NumIPs == 3
MaxLeaked == 1

\* ------------------------------------------------- program constants
nodeTimeout == 3
IdleSleepSeconds == 600
AttemptInterval == 60
InFlightTimeout == 60
StoreCap == 2
ParallelismBound == 1
GoodWindow == 3600

IPs == 1..NumIPs
Workers == 1..StoreCap
AgeCap == AttemptInterval

VARIABLES
    amgr,            \* the address manager: ip -> node
    systemShutdown,  \* the process-wide shutdown flag (0 / 1)
    shutdownAge,     \* seconds of idle sleep spent with the flag set (saturating at 2)
    creepPc,         \* position of the creep loop
    peers,           \* the batch returned by amgr.Addresses()
    todo,            \* the candidates the range loop has not reached yet
    sleepI,          \* the counter i of the idle sleep loop
    wgCreep,         \* the wait group of the workers
    wPc,             \* position of each worker goroutine
    wAddr,           \* the addr argument of each worker goroutine
    wTimer,          \* seconds spent in the worker's current timed wait
    wElapsed,        \* seconds since the worker started to dial
    wAttempt,        \* the worker has called amgr.Attempt(ip)
    wGood,           \* amgr.Good(ip) was called for this worker's peer
    wConn,           \* the worker associated a connection / disconnected it
    lVersion,        \* OnVersion listener of the worker's peer
    lAddr,           \* OnAddr listener of the worker's peer
    onVersionLeaked, \* OnVersion listeners of ended workers still sending
    onAddrLeaked,    \* OnAddr listeners of ended workers still sending
    scn,             \* progress of the single-seed scenario
    mainPc,          \* position of main
    dnsPc,           \* the DNS responder goroutine
    storePc,         \* the tasks of the address manager (amgr.wg)
    wg,              \* the wait group of creep and the DNS responder
    amgrQuit,        \* the quit channel of the address manager
    exitCode,        \* the exit code of the process, -1 while it runs
    openConns,       \* connections associated with a peer, not yet disconnected
    emptySeedAge     \* seconds since the last bootstrap that yielded no address

vars == << amgr, systemShutdown, shutdownAge, creepPc, peers, todo, sleepI,
           wgCreep, wPc, wAddr, wTimer, wElapsed, wAttempt,
           wGood, wConn, lVersion, lAddr, onVersionLeaked,
           onAddrLeaked, scn,
           mainPc, dnsPc, storePc, wg, amgrQuit, exitCode, openConns, emptySeedAge >>

creepVars == << creepPc, peers, todo, sleepI >>
workerVars == << wPc, wAddr, wTimer, wElapsed, wAttempt, wGood, wConn >>
listenerVars == << lVersion, lAddr, onVersionLeaked, onAddrLeaked >>
mainVars == << mainPc, dnsPc, storePc, wg, amgrQuit, exitCode >>

\* ------------------------------------------------ address manager
NoNode == [present |-> FALSE, attempted |-> FALSE, attemptAge |-> 0,
           succeeded |-> FALSE, successAge |-> 0,
           inFlight |-> FALSE, inFlightAge |-> 0]

NewNode == [NoNode EXCEPT !.present = TRUE]

AddressCount(am) == Cardinality({ip \in IPs : am[ip].present})

\* an insertion that does not look at the cap
AddAddressNoCap(am, ip) ==
    IF am[ip].present THEN am ELSE [am EXCEPT ![ip] = NewNode]

\* Inserts one address: a known ip and an insertion beyond the cap are ignored.
AddAddress(am, ip) ==
    IF am[ip].present \/ AddressCount(am) >= StoreCap
    THEN am
    ELSE [am EXCEPT ![ip] = NewNode]

RECURSIVE AddAddressesFrom(_, _, _)
AddAddressesFrom(am, addrs, ip) ==
    IF ip > NumIPs THEN am
    ELSE AddAddressesFrom(IF ip \in addrs THEN AddAddress(am, ip) ELSE am,
                          addrs, ip + 1)

AddAddresses(am, addrs) == AddAddressesFrom(am, addrs, 1)

Attempt(am, ip) ==
    IF am[ip].present
    THEN [am EXCEPT ![ip].attempted = TRUE, ![ip].attemptAge = 0,
                    ![ip].inFlight = FALSE, ![ip].inFlightAge = 0]
    ELSE am

\* Good as it would be without the update of lastAttempt
GoodKeepsAttempt(am, ip) ==
    [am EXCEPT ![ip].present = TRUE,
               ![ip].succeeded = TRUE, ![ip].successAge = 0,
               ![ip].inFlight = FALSE, ![ip].inFlightAge = 0]

Good(am, ip) ==
    [am EXCEPT ![ip].present = TRUE,
               ![ip].succeeded = TRUE, ![ip].successAge = 0,
               ![ip].attempted = TRUE, ![ip].attemptAge = 0,
               ![ip].inFlight = FALSE, ![ip].inFlightAge = 0]

\* eligibility without the re-attempt interval
EligibleNoFloor(n) == n.present /\ ~n.inFlight

Eligible(n) ==
    /\ n.present
    /\ ~n.inFlight
    /\ (~n.attempted \/ n.attemptAge >= AttemptInterval)

Addresses(am) == {ip \in IPs : Eligible(am[ip])}

MarkInFlight(am, ips) ==
    [ip \in IPs |-> IF ip \in ips
                    THEN [am[ip] EXCEPT !.inFlight = TRUE, !.inFlightAge = 0]
                    ELSE am[ip]]

\* the entries whose last success lies within the last hour.  The ages
\* saturate at AgeCap, below the window: over the seconds of a crawl round a
\* success does not go stale.
GoodAddresses(am) ==
    {ip \in IPs : /\ am[ip].present
                  /\ am[ip].succeeded
                  /\ am[ip].successAge < GoodWindow}

Older(age) == IF age < AgeCap THEN age + 1 ELSE age

AgeNode(n) ==
    LET timedOut == n.inFlight /\ n.inFlightAge + 1 >= InFlightTimeout
    IN [n EXCEPT !.attemptAge = IF n.attempted THEN Older(n.attemptAge) ELSE 0,
                 !.successAge = IF n.succeeded THEN Older(n.successAge) ELSE 0,
                 !.inFlight = n.inFlight /\ ~timedOut,
                 !.inFlightAge = IF n.inFlight /\ ~timedOut
                                 THEN n.inFlightAge + 1 ELSE 0]

\* ------------------------------------------- the single-seed scenario
\* The scenario of one injected seed address whose handshake delivers the
\* version message and then one addr batch of unknown addresses, both within
\* the timeouts.  scn follows it stage by stage and is off as soon as the
\* run leaves it: seeded -> version -> addr -> received -> done.
ScnOff == [stage |-> "off", seed |-> 0, k |-> 0]

ScnInit(seeder) ==
    IF seeder = {} THEN ScnOff
    ELSE [stage |-> "seeded", seed |-> CHOOSE ip \in seeder : TRUE, k |-> 0]

\* the OnVersion listener runs for the peer ip
ScnVersion(sc, ip) ==
    IF sc.stage = "seeded" /\ ip = sc.seed
    THEN [sc EXCEPT !.stage = "version"]
    ELSE ScnOff

\* the OnAddr listener runs with the batch list
ScnAddr(sc, am, list) ==
    IF sc.stage = "version" /\ \A ip \in list : ~am[ip].present
    THEN [sc EXCEPT !.stage = "addr", !.k = Cardinality(list)]
    ELSE ScnOff

\* a worker that dialed ends, by the onAddr receive (success) or by a timeout
ScnWorkerEnds(sc, success) ==
    IF sc.stage = "addr" /\ success THEN [sc EXCEPT !.stage = "received"]
    ELSE IF sc.stage \in {"version", "addr"} THEN ScnOff
    ELSE sc

\* wgCreep.Wait() returns: the round is complete
ScnRoundEnds(sc) ==
    IF sc.stage = "received" THEN [sc EXCEPT !.stage = "done"] ELSE sc

\* a listener that drops the batch
AddrListDropped(list) == {}

\* msg.AddrList as the listener hands it to amgr.AddAddresses
AddrList(list) == list

\* The addresses are interchangeable, so they are numbered in the order in
\* which the address manager first hears of them: the unknown addresses of a
\* list handed to AddAddresses are the least unknown ones.
InOrderOfAppearance(am, addrs) ==
    \A ip \in addrs :
        ~am[ip].present =>
            \A j \in 1..(ip - 1) : am[j].present \/ j \in addrs

\* ------------------------------------------------------------ init
Init ==
    /\ \E seeder \in SUBSET IPs :
          /\ Cardinality(seeder) <= 1
          /\ InOrderOfAppearance([ip \in IPs |-> NoNode], seeder)
          /\ amgr = AddAddresses([ip \in IPs |-> NoNode], seeder)
          /\ scn = ScnInit(seeder)
    /\ mainPc = "interruptWait"
    /\ dnsPc = "running"
    /\ storePc = "running"
    /\ wg = 2
    /\ amgrQuit = "open"
    /\ exitCode = -1
    /\ systemShutdown = 0
    /\ shutdownAge = 0
    /\ creepPc = "addresses"
    /\ peers = {}
    /\ todo = {}
    /\ sleepI = 0
    /\ wgCreep = 0
    /\ wPc = [w \in Workers |-> "free"]
    /\ wAddr = [w \in Workers |-> 0]
    /\ wTimer = [w \in Workers |-> 0]
    /\ wElapsed = [w \in Workers |-> 0]
    /\ wAttempt = [w \in Workers |-> FALSE]
    /\ wGood = [w \in Workers |-> FALSE]
    /\ wConn = [w \in Workers |-> "none"]
    /\ lVersion = [w \in Workers |-> "none"]
    /\ lAddr = [w \in Workers |-> "none"]
    /\ onVersionLeaked = 0
    /\ onAddrLeaked = 0
    /\ openConns = 0
    /\ emptySeedAge = IdleSleepSeconds

\* defer wg.Done() / defer wgCreep.Done()
Done(n) == n - 1

\* ------------------------------------------------------ creep loop
\* for { peers := amgr.Addresses()
CreepAddresses ==
    /\ creepPc = "addresses"
    /\ peers' = Addresses(amgr)
    /\ amgr' = MarkInFlight(amgr, Addresses(amgr))
    /\ creepPc' = "count"
    /\ UNCHANGED << systemShutdown, shutdownAge, todo, sleepI, wgCreep,
                    workerVars, listenerVars >>
    /\ scn' = IF scn.stage = "done" THEN ScnOff ELSE scn
    /\ UNCHANGED mainVars
    /\ UNCHANGED openConns
    /\ UNCHANGED emptySeedAge

\* the condition without the AddressCount() test
NeedsSeedingNoCount(ps, am) == ps = {}

\* if len(peers) == 0 && amgr.AddressCount() == 0 {
NeedsSeeding(ps, am) == ps = {} /\ AddressCount(am) = 0

CreepCount ==
    /\ creepPc = "count"
    /\ creepPc' = IF NeedsSeeding(peers, amgr) THEN "seed" ELSE "idleCheck"
    /\ UNCHANGED << amgr, systemShutdown, shutdownAge, peers, todo, sleepI,
                    wgCreep, workerVars, listenerVars >>
    /\ UNCHANGED scn
    /\ UNCHANGED mainVars
    /\ UNCHANGED openConns
    /\ UNCHANGED emptySeedAge

\* connmgr.SeedFromDNS(..., func(addrs) { amgr.AddAddresses(addrs) })
CreepSeedFromDNS ==
    /\ creepPc = "seed"
    /\ \E addrs \in SUBSET IPs :
          /\ InOrderOfAppearance(amgr, addrs)
          /\ amgr' = AddAddresses(amgr, addrs)
    /\ creepPc' = "addresses2"
    /\ UNCHANGED << systemShutdown, shutdownAge, peers, todo, sleepI, wgCreep,
                    workerVars, listenerVars >>
    /\ UNCHANGED scn
    /\ UNCHANGED mainVars
    /\ UNCHANGED openConns
    /\ emptySeedAge' = IF AddressCount(amgr') = 0 THEN 0 ELSE emptySeedAge

\* peers = amgr.Addresses() }
CreepAddressesAgain ==
    /\ creepPc = "addresses2"
    /\ peers' = Addresses(amgr)
    /\ amgr' = MarkInFlight(amgr, Addresses(amgr))
    /\ creepPc' = "idleCheck"
    /\ UNCHANGED << systemShutdown, shutdownAge, todo, sleepI, wgCreep,
                    workerVars, listenerVars >>
    /\ UNCHANGED scn
    /\ UNCHANGED mainVars
    /\ UNCHANGED openConns
    /\ UNCHANGED emptySeedAge

\* if len(peers) == 0 { ... for i := 0; i < 600; i++ {  /  for _, addr := range peers {
CreepIdleCheck ==
    /\ creepPc = "idleCheck"
    /\ IF peers = {}
       THEN creepPc' = "sleep" /\ sleepI' = 0 /\ todo' = {}
       ELSE creepPc' = "spawn" /\ sleepI' = sleepI /\ todo' = peers
    /\ UNCHANGED << amgr, systemShutdown, shutdownAge, peers, wgCreep,
                    workerVars, listenerVars >>
    /\ UNCHANGED scn
    /\ UNCHANGED mainVars
    /\ UNCHANGED openConns
    /\ UNCHANGED emptySeedAge

\* an idle sleep of one second
IdleLoopEndsEarly(i) == FALSE

\* for i := 0; i < 600; i++ { time.Sleep(time.Second) ...
IdleLoopGoesOn(i) == i + 1 < IdleSleepSeconds

\* the sleep loop without the test of the flag
SleepIgnoresShutdown(flag) == FALSE

\* if atomic.LoadInt32(&systemShutdown) != 0 { return }  after time.Sleep(time.Second)
SleepSeesShutdown(flag) == flag /= 0

CreepSleepCheck ==
    /\ creepPc = "woke"
    /\ IF SleepSeesShutdown(systemShutdown)
       THEN creepPc' = "returned" /\ sleepI' = 0
       ELSE IF IdleLoopGoesOn(sleepI)
            THEN creepPc' = "sleep" /\ sleepI' = sleepI + 1
            ELSE creepPc' = "addresses" /\ sleepI' = 0
    /\ UNCHANGED << amgr, systemShutdown, shutdownAge, peers, todo, wgCreep,
                    workerVars, listenerVars >>
    /\ UNCHANGED scn
    /\ wg' = IF SleepSeesShutdown(systemShutdown) THEN Done(wg) ELSE wg
    /\ UNCHANGED << mainPc, dnsPc, storePc, amgrQuit, exitCode >>
    /\ UNCHANGED openConns
    /\ UNCHANGED emptySeedAge

\* the range loop returning at once, without wgCreep.Wait()
CreepSpawnShutdownReturns ==
    /\ creepPc = "spawn"
    /\ systemShutdown /= 0
    /\ creepPc' = "returned"
    /\ peers' = {}
    /\ todo' = {}
    /\ UNCHANGED << amgr, systemShutdown, shutdownAge, sleepI,
                    wgCreep, workerVars, listenerVars >>
    /\ UNCHANGED scn
    /\ wg' = Done(wg)
    /\ UNCHANGED << mainPc, dnsPc, storePc, amgrQuit, exitCode >>
    /\ UNCHANGED openConns
    /\ UNCHANGED emptySeedAge

\* range loop header: if atomic.LoadInt32(&systemShutdown) != 0 { wgCreep.Wait() ...
CreepSpawnShutdown ==
    /\ creepPc = "spawn"
    /\ systemShutdown /= 0
    /\ creepPc' = "shutdownWait"
    /\ UNCHANGED << amgr, systemShutdown, shutdownAge, peers, todo, sleepI,
                    wgCreep, workerVars, listenerVars >>
    /\ UNCHANGED scn
    /\ UNCHANGED mainVars
    /\ UNCHANGED openConns
    /\ UNCHANGED emptySeedAge

FreeSlot == CHOOSE w \in Workers : wPc[w] = "free" /\ \A v \in Workers : wPc[v] = "free" => w <= v

\* the argument the goroutine is started with: go func(addr *wire.NetAddress) {...}(addr)
WorkerArg(addr, batch) == addr

\* wgCreep.Add(1); go func(addr) {...}(addr)
CreepSpawnWorker ==
    /\ creepPc = "spawn"
    /\ systemShutdown = 0
    /\ \E w \in Workers : wPc[w] = "free"
    /\ \E addr \in todo :
          LET w == FreeSlot IN
          /\ todo' = todo \ {addr}
          /\ creepPc' = IF todo \ {addr} = {} THEN "wait" ELSE "spawn"
          /\ wgCreep' = wgCreep + 1
          /\ wPc' = [wPc EXCEPT ![w] = "start"]
          /\ wAddr' = [wAddr EXCEPT ![w] = WorkerArg(addr, peers)]
          /\ wTimer' = [wTimer EXCEPT ![w] = 0]
          /\ wElapsed' = [wElapsed EXCEPT ![w] = 0]
          /\ wAttempt' = [wAttempt EXCEPT ![w] = FALSE]
          /\ wGood' = [wGood EXCEPT ![w] = FALSE]
          /\ wConn' = [wConn EXCEPT ![w] = "none"]
    /\ UNCHANGED << amgr, systemShutdown, shutdownAge, peers, sleepI,
                    listenerVars >>
    /\ UNCHANGED scn
    /\ UNCHANGED mainVars
    /\ UNCHANGED openConns
    /\ UNCHANGED emptySeedAge

\* a Wait() that does not wait
WaitSkipped(n) == TRUE

\* wgCreep.Wait() returns when the counter is zero
WaitDone(n) == n = 0

\* wgCreep.Wait(); log.Printf("Creep thread shutdown"); return
CreepShutdownWait ==
    /\ creepPc = "shutdownWait"
    /\ WaitDone(wgCreep)
    /\ creepPc' = "returned"
    /\ peers' = {}
    /\ todo' = {}
    /\ UNCHANGED << amgr, systemShutdown, shutdownAge, sleepI,
                    wgCreep, workerVars, listenerVars >>
    /\ scn' = ScnRoundEnds(scn)
    /\ wg' = Done(wg)
    /\ UNCHANGED << mainPc, dnsPc, storePc, amgrQuit, exitCode >>
    /\ UNCHANGED openConns
    /\ UNCHANGED emptySeedAge

\* wgCreep.Wait() } at the end of a round
CreepWait ==
    /\ creepPc = "wait"
    /\ WaitDone(wgCreep)
    /\ creepPc' = "addresses"
    /\ UNCHANGED << amgr, systemShutdown, shutdownAge, peers, todo, sleepI,
                    wgCreep, workerVars, listenerVars >>
    /\ scn' = ScnRoundEnds(scn)
    /\ UNCHANGED mainVars
    /\ UNCHANGED openConns
    /\ UNCHANGED emptySeedAge

\* --------------------------------------------------------- workers
\* an exit that leaves the connection open
DisconnectSkipped(n) == n

\* p.Disconnect()
Disconnect(n) == n - 1

Min(a, b) == IF a < b THEN a ELSE b

\* the goroutine ending without wgCreep.Done()
WorkerEndsNoDone(w) ==
    /\ wPc' = [wPc EXCEPT ![w] = "free"]
    /\ wAddr' = [wAddr EXCEPT ![w] = 0]
    /\ wTimer' = [wTimer EXCEPT ![w] = 0]
    /\ wElapsed' = [wElapsed EXCEPT ![w] = 0]
    /\ wAttempt' = [wAttempt EXCEPT ![w] = FALSE]
    /\ wGood' = [wGood EXCEPT ![w] = FALSE]
    /\ wConn' = [wConn EXCEPT ![w] = "none"]
    /\ wgCreep' = wgCreep
    /\ lVersion' = [lVersion EXCEPT ![w] = "none"]

\* defer wgCreep.Done(): the goroutine ends and its locals are gone.  A
\* listener of its peer that is still blocked in its channel send stays
\* blocked: it is counted among the leaked senders of that channel.
WorkerEnds(w) ==
    /\ wPc' = [wPc EXCEPT ![w] = "free"]
    /\ wAddr' = [wAddr EXCEPT ![w] = 0]
    /\ wTimer' = [wTimer EXCEPT ![w] = 0]
    /\ wElapsed' = [wElapsed EXCEPT ![w] = 0]
    /\ wAttempt' = [wAttempt EXCEPT ![w] = FALSE]
    /\ wGood' = [wGood EXCEPT ![w] = FALSE]
    /\ wConn' = [wConn EXCEPT ![w] = "none"]
    /\ wgCreep' = wgCreep - 1
    /\ lVersion' = [lVersion EXCEPT ![w] = "none"]

LeakVersion(w) ==
    onVersionLeaked' = IF lVersion[w] = "blocked"
                       THEN Min(onVersionLeaked + 1, MaxLeaked)
                       ELSE onVersionLeaked

LeakAddr(w) ==
    onAddrLeaked' = IF lAddr[w] = "blocked"
                    THEN Min(onAddrLeaked + 1, MaxLeaked)
                    ELSE onAddrLeaked

\* p, err := peer.NewOutboundPeer(&config, host); err == nil
WorkerNewOutboundPeer(w) ==
    /\ wPc[w] = "start"
    /\ wPc' = [wPc EXCEPT ![w] = "attempt"]
    /\ UNCHANGED << amgr, systemShutdown, shutdownAge, creepVars, wgCreep,
                    wAddr, wTimer, wElapsed, wAttempt, wGood, wConn,
                    listenerVars >>
    /\ UNCHANGED scn
    /\ UNCHANGED mainVars
    /\ UNCHANGED openConns
    /\ UNCHANGED emptySeedAge

\* if err != nil { log.Printf(...); return }
WorkerNewOutboundPeerFails(w) ==
    /\ wPc[w] = "start"
    /\ WorkerEnds(w)
    /\ UNCHANGED << amgr, systemShutdown, shutdownAge, creepVars,
                    lAddr, onVersionLeaked, onAddrLeaked >>
    /\ UNCHANGED scn
    /\ UNCHANGED mainVars
    /\ UNCHANGED openConns
    /\ UNCHANGED emptySeedAge

\* the worker dialing without amgr.Attempt
WorkerAttemptSkipped(w) ==
    /\ wPc[w] = "attempt"
    /\ wPc' = [wPc EXCEPT ![w] = "dial"]
    /\ wTimer' = [wTimer EXCEPT ![w] = 0]
    /\ UNCHANGED << amgr, systemShutdown, shutdownAge, creepVars, wgCreep,
                    wAddr, wElapsed, wAttempt, wGood, wConn, listenerVars >>
    /\ UNCHANGED scn
    /\ UNCHANGED mainVars
    /\ UNCHANGED openConns
    /\ UNCHANGED emptySeedAge

\* amgr.Attempt(addr.IP), then net.DialTimeout starts
WorkerAttempt(w) ==
    /\ wPc[w] = "attempt"
    /\ amgr' = Attempt(amgr, wAddr[w])
    /\ wAttempt' = [wAttempt EXCEPT ![w] = TRUE]
    /\ wPc' = [wPc EXCEPT ![w] = "dial"]
    /\ wTimer' = [wTimer EXCEPT ![w] = 0]
    /\ UNCHANGED << systemShutdown, shutdownAge, creepVars, wgCreep,
                    wAddr, wElapsed, wGood, wConn, listenerVars >>
    /\ UNCHANGED scn
    /\ UNCHANGED mainVars
    /\ UNCHANGED openConns
    /\ UNCHANGED emptySeedAge

\* conn, err := net.DialTimeout("tcp", p.Addr(), nodeTimeout); err != nil: return
WorkerDialFails(w) ==
    /\ wPc[w] = "dial"
    /\ WorkerEnds(w)
    /\ UNCHANGED << amgr, systemShutdown, shutdownAge, creepVars,
                    lAddr, onVersionLeaked, onAddrLeaked >>
    /\ UNCHANGED scn
    /\ UNCHANGED mainVars
    /\ UNCHANGED openConns
    /\ UNCHANGED emptySeedAge

\* err == nil: p.AssociateConnection(conn), then the select on onVersion
WorkerDialOK(w) ==
    /\ wPc[w] = "dial"
    /\ wPc' = [wPc EXCEPT ![w] = "version"]
    /\ wConn' = [wConn EXCEPT ![w] = "associated"]
    /\ wTimer' = [wTimer EXCEPT ![w] = 0]
    /\ UNCHANGED << amgr, systemShutdown, shutdownAge, creepVars, wgCreep,
                    wAddr, wElapsed, wAttempt, wGood, listenerVars >>
    /\ UNCHANGED scn
    /\ UNCHANGED mainVars
    /\ openConns' = openConns + 1
    /\ UNCHANGED emptySeedAge

\* a timer that fires one second late
TimerExpiredLate(t) == t > nodeTimeout

\* case <-time.After(nodeTimeout): the timer has fired
TimerExpired(t) == t >= nodeTimeout

\* case <-onVersion: the sender is the OnVersion listener of a running worker's peer
WorkerRecvVersion(w) ==
    /\ wPc[w] = "version"
    /\ \E s \in Workers :
          /\ lVersion[s] = "blocked"
          /\ lVersion' = [lVersion EXCEPT ![s] = "returned"]
    /\ wPc' = [wPc EXCEPT ![w] = "addr"]
    /\ wTimer' = [wTimer EXCEPT ![w] = 0]
    /\ UNCHANGED << amgr, systemShutdown, shutdownAge, creepVars, wgCreep,
                    wAddr, wElapsed, wAttempt, wGood, wConn,
                    lAddr, onVersionLeaked, onAddrLeaked >>
    /\ UNCHANGED scn
    /\ UNCHANGED mainVars
    /\ UNCHANGED openConns
    /\ UNCHANGED emptySeedAge

\* case <-onVersion: the sender is a listener left blocked by an ended worker
WorkerRecvVersionLeaked(w) ==
    /\ wPc[w] = "version"
    /\ onVersionLeaked > 0
    /\ onVersionLeaked' = onVersionLeaked - 1
    /\ wPc' = [wPc EXCEPT ![w] = "addr"]
    /\ wTimer' = [wTimer EXCEPT ![w] = 0]
    /\ UNCHANGED << amgr, systemShutdown, shutdownAge, creepVars, wgCreep,
                    wAddr, wElapsed, wAttempt, wGood, wConn,
                    lVersion, lAddr, onAddrLeaked >>
    /\ UNCHANGED scn
    /\ UNCHANGED mainVars
    /\ UNCHANGED openConns
    /\ UNCHANGED emptySeedAge

\* case <-time.After(nodeTimeout): version timeout; p.Disconnect(); return
WorkerVersionTimeout(w) ==
    /\ wPc[w] = "version"
    /\ TimerExpired(wTimer[w])
    /\ WorkerEnds(w)
    /\ LeakVersion(w)
    /\ LeakAddr(w)
    /\ lAddr' = [lAddr EXCEPT ![w] = "none"]
    /\ UNCHANGED << amgr, systemShutdown, shutdownAge, creepVars >>
    /\ scn' = ScnWorkerEnds(scn, FALSE)
    /\ UNCHANGED mainVars
    /\ openConns' = Disconnect(openConns)
    /\ UNCHANGED emptySeedAge

\* case <-onAddr: ...; p.Disconnect(); the sender is the OnAddr listener of a
\* running worker's peer
WorkerRecvAddr(w) ==
    /\ wPc[w] = "addr"
    /\ \E s \in Workers :
          /\ lAddr[s] = "blocked"
          /\ lAddr' = [lAddr EXCEPT ![s] = "returned", ![w] = "none"]
          /\ onAddrLeaked' = IF s /= w /\ lAddr[w] = "blocked"
                             THEN Min(onAddrLeaked + 1, MaxLeaked)
                             ELSE onAddrLeaked
    /\ WorkerEnds(w)
    /\ LeakVersion(w)
    /\ UNCHANGED << amgr, systemShutdown, shutdownAge, creepVars >>
    /\ scn' = ScnWorkerEnds(scn, TRUE)
    /\ UNCHANGED mainVars
    /\ openConns' = Disconnect(openConns)
    /\ UNCHANGED emptySeedAge

\* case <-onAddr: ...; p.Disconnect(); the sender is a listener left blocked by
\* an ended worker
WorkerRecvAddrLeaked(w) ==
    /\ wPc[w] = "addr"
    /\ onAddrLeaked > 0
    /\ onAddrLeaked' = IF lAddr[w] = "blocked" THEN onAddrLeaked
                       ELSE onAddrLeaked - 1
    /\ lAddr' = [lAddr EXCEPT ![w] = "none"]
    /\ WorkerEnds(w)
    /\ LeakVersion(w)
    /\ UNCHANGED << amgr, systemShutdown, shutdownAge, creepVars >>
    /\ scn' = ScnWorkerEnds(scn, TRUE)
    /\ UNCHANGED mainVars
    /\ openConns' = Disconnect(openConns)
    /\ UNCHANGED emptySeedAge

\* case <-time.After(nodeTimeout): getaddr timeout; p.Disconnect(); return
WorkerAddrTimeout(w) ==
    /\ wPc[w] = "addr"
    /\ TimerExpired(wTimer[w])
    /\ WorkerEnds(w)
    /\ LeakVersion(w)
    /\ LeakAddr(w)
    /\ lAddr' = [lAddr EXCEPT ![w] = "none"]
    /\ UNCHANGED << amgr, systemShutdown, shutdownAge, creepVars >>
    /\ scn' = ScnWorkerEnds(scn, FALSE)
    /\ UNCHANGED mainVars
    /\ openConns' = Disconnect(openConns)
    /\ UNCHANGED emptySeedAge

\* ------------------------------------------------------- listeners
\* OnVersion: amgr.Good(p.NA().IP, ...); p.QueueMessage(getaddr); onVersion <- struct{}{}
OnVersion(w) ==
    /\ wPc[w] \in {"version", "addr"}
    /\ wConn[w] = "associated"
    /\ lVersion[w] = "none"
    /\ amgr' = Good(amgr, wAddr[w])
    /\ wGood' = [wGood EXCEPT ![w] = TRUE]
    /\ lVersion' = [lVersion EXCEPT ![w] = "blocked"]
    /\ UNCHANGED << systemShutdown, shutdownAge, creepVars, wgCreep,
                    wPc, wAddr, wTimer, wElapsed, wAttempt, wConn,
                    lAddr, onVersionLeaked, onAddrLeaked >>
    /\ scn' = ScnVersion(scn, wAddr[w])
    /\ UNCHANGED mainVars
    /\ UNCHANGED openConns
    /\ UNCHANGED emptySeedAge

\* OnAddr: added := amgr.AddAddresses(msg.AddrList); onAddr <- struct{}{}
OnAddr(w) ==
    /\ wPc[w] \in {"version", "addr"}
    /\ wConn[w] = "associated"
    /\ lVersion[w] = "returned"
    /\ lAddr[w] /= "blocked"
    /\ \E list \in SUBSET IPs :
          /\ InOrderOfAppearance(amgr, list)
          /\ amgr' = AddAddresses(amgr, AddrList(list))
          /\ scn' = ScnAddr(scn, amgr, list)
    /\ lAddr' = [lAddr EXCEPT ![w] = "blocked"]
    /\ UNCHANGED << systemShutdown, shutdownAge, creepVars, wgCreep,
                    workerVars, lVersion, onVersionLeaked, onAddrLeaked >>
    /\ UNCHANGED mainVars
    /\ UNCHANGED openConns
    /\ UNCHANGED emptySeedAge

\* ------------------------------------------------ main and the clock
\* the interrupt: atomic.StoreInt32(&systemShutdown, 1)
Shutdown ==
    /\ systemShutdown = 0
    /\ systemShutdown' = 1
    /\ shutdownAge' = 0
    /\ UNCHANGED << amgr, creepVars, wgCreep, workerVars, listenerVars >>
    /\ UNCHANGED scn
    /\ UNCHANGED mainVars
    /\ UNCHANGED openConns
    /\ UNCHANGED emptySeedAge

\* ------------------------------------------------------------- main
crawlVars == << amgr, systemShutdown, shutdownAge, creepVars, wgCreep,
                workerVars, listenerVars, scn, openConns, emptySeedAge >>

InitSteps == {"loadConfig", "newManager", "atoi"}

\* cfg, err := loadConfig() / amgr, err = NewManager(...) / strconv.Atoi(...)
\* NewManager starts the tasks of the address manager.
MainInitStep ==
    /\ mainPc \in InitSteps
    /\ \E err \in BOOLEAN :
          /\ mainPc' = IF err THEN "failed"
                       ELSE IF mainPc = "loadConfig" THEN "newManager"
                       ELSE IF mainPc = "newManager" THEN "atoi"
                       ELSE "seeder"
          /\ storePc' = IF mainPc = "newManager" /\ ~err THEN "running" ELSE storePc
    /\ UNCHANGED << crawlVars, dnsPc, wg, amgrQuit, exitCode >>

\* if err != nil { fmt.Fprintf(os.Stderr, ...); os.Exit(1) }
MainExit1 ==
    /\ mainPc = "failed"
    /\ mainPc' = "exited"
    /\ exitCode' = 1
    /\ UNCHANGED << crawlVars, dnsPc, storePc, wg, amgrQuit >>

\* if len(cfg.Seeder) != 0 { ip := net.ParseIP(cfg.Seeder); if ip == nil { ...
MainSeeder ==
    /\ mainPc = "seeder"
    /\ \E seeder \in {"none", "ip", "host"} :
          mainPc' = IF seeder = "none" THEN "spawnCreep"
                    ELSE IF seeder = "ip" THEN "inject" ELSE "lookup"
    /\ UNCHANGED << crawlVars, dnsPc, storePc, wg, amgrQuit, exitCode >>

\* hostAddrs, err := net.LookupHost(cfg.Seeder); ip = net.ParseIP(hostAddrs[0])
MainLookupHost ==
    /\ mainPc = "lookup"
    /\ \E resolved \in BOOLEAN :
          mainPc' = IF resolved THEN "inject" ELSE "unresolved"
    /\ UNCHANGED << crawlVars, dnsPc, storePc, wg, amgrQuit, exitCode >>

\* an unresolved seed host taken as an initialisation failure
MainSeedFatal ==
    /\ mainPc = "unresolved"
    /\ mainPc' = "failed"
    /\ UNCHANGED << crawlVars, dnsPc, storePc, wg, amgrQuit, exitCode >>

\* log.Printf("Failed to resolve seed host: ..., ignoring"); ip stays nil
MainSeedIgnored ==
    /\ mainPc = "unresolved"
    /\ mainPc' = "spawnCreep"
    /\ UNCHANGED << crawlVars, dnsPc, storePc, wg, amgrQuit, exitCode >>

\* if ip != nil { amgr.AddAddresses([]*wire.NetAddress{...}) }
MainInject ==
    /\ mainPc = "inject"
    /\ \E seeder \in SUBSET IPs :
          /\ Cardinality(seeder) = 1
          /\ InOrderOfAppearance(amgr, seeder)
          /\ amgr' = AddAddresses(amgr, seeder)
          /\ scn' = ScnInit(seeder)
    /\ mainPc' = "spawnCreep"
    /\ UNCHANGED << systemShutdown, shutdownAge, creepVars, wgCreep,
                    workerVars, listenerVars,
                    dnsPc, storePc, wg, amgrQuit, exitCode >>
    /\ UNCHANGED openConns
    /\ UNCHANGED emptySeedAge

\* wg.Add(1); go creep()
MainSpawnCreep ==
    /\ mainPc = "spawnCreep"
    /\ wg' = wg + 1
    /\ creepPc' = "addresses"
    /\ mainPc' = "spawnDns"
    /\ UNCHANGED << amgr, systemShutdown, shutdownAge, peers, todo, sleepI,
                    wgCreep, workerVars, listenerVars, scn,
                    dnsPc, storePc, amgrQuit, exitCode >>
    /\ UNCHANGED openConns
    /\ UNCHANGED emptySeedAge

\* dnsServer := NewDNSServer(...); wg.Add(1); go dnsServer.Start()
MainSpawnDns ==
    /\ mainPc = "spawnDns"
    /\ wg' = wg + 1
    /\ dnsPc' = "running"
    /\ mainPc' = "interruptWait"
    /\ UNCHANGED << crawlVars, storePc, amgrQuit, exitCode >>

\* <-interrupt; the deferred function: atomic.StoreInt32(&systemShutdown, 1)
MainInterrupt ==
    /\ mainPc = "interruptWait"
    /\ systemShutdown' = 1
    /\ shutdownAge' = 0
    /\ mainPc' = "closeQuit"
    /\ UNCHANGED << amgr, creepVars, wgCreep, workerVars, listenerVars, scn,
                    dnsPc, storePc, wg, amgrQuit, exitCode >>
    /\ UNCHANGED openConns
    /\ UNCHANGED emptySeedAge

\* close(amgr.quit)
MainCloseQuit ==
    /\ mainPc = "closeQuit"
    /\ amgrQuit' = "closed"
    /\ mainPc' = "wgWait"
    /\ UNCHANGED << crawlVars, dnsPc, storePc, wg, exitCode >>

\* main going on without wg.Wait()
MainWgWaitSkipped ==
    /\ mainPc = "wgWait"
    /\ mainPc' = "amgrWait"
    /\ UNCHANGED << crawlVars, dnsPc, storePc, wg, amgrQuit, exitCode >>

\* wg.Wait()
MainWgWait ==
    /\ mainPc = "wgWait"
    /\ WaitDone(wg)
    /\ mainPc' = "amgrWait"
    /\ UNCHANGED << crawlVars, dnsPc, storePc, wg, amgrQuit, exitCode >>

\* amgr.wg.Wait(); log.Printf("Seeder shutdown complete"); main returns
MainAmgrWait ==
    /\ mainPc = "amgrWait"
    /\ storePc /= "running"
    /\ mainPc' = "complete"
    /\ exitCode' = 0
    /\ UNCHANGED << crawlVars, dnsPc, storePc, wg, amgrQuit >>

\* the DNS responder stops once the flag is set: defer wg.Done()
DnsStops ==
    /\ dnsPc = "running"
    /\ systemShutdown /= 0
    /\ dnsPc' = "done"
    /\ wg' = Done(wg)
    /\ UNCHANGED << crawlVars, mainPc, storePc, amgrQuit, exitCode >>

\* the tasks of the address manager see the closed quit channel, write the
\* final snapshot and end
StoreStops ==
    /\ storePc = "running"
    /\ amgrQuit = "closed"
    /\ storePc' = "done"
    /\ UNCHANGED << crawlVars, mainPc, dnsPc, wg, amgrQuit, exitCode >>

\* main is blocked: on the interrupt, in a Wait() that cannot return yet, or
\* it is over
MainBlocked ==
    \/ mainPc \in {"interruptWait", "complete", "exited"}
    \/ mainPc = "wgWait" /\ ~WaitDone(wg)
    \/ mainPc = "amgrWait" /\ storePc = "running"

Timed(pc) == pc \in {"dial", "version", "addr"}

\* a listener is blocked in its send on the channel: a receive can take place
SenderReady(listeners, leaked) ==
    leaked > 0 \/ \E s \in Workers : listeners[s] = "blocked"

\* One second passes: time.Sleep(time.Second) returns, the timers of
\* net.DialTimeout and time.After(nodeTimeout) advance, the timestamps age.
\* The clock is observed through the armed timers only: it ticks when the
\* creep loop sleeps or a worker is in a timed wait, no timer is overdue, no
\* goroutine has a step to take that does not block, and no receiver waits on
\* a channel on which a sender is blocked (an unbuffered channel hands over
\* at once when both are there, and a closed channel is received from at once).
Tick ==
    /\ MainBlocked
    /\ ~(storePc = "running" /\ amgrQuit = "closed")
    /\ creepPc \in {"sleep", "wait", "shutdownWait", "returned"}
    /\ creepPc = "sleep" \/ \E w \in Workers : Timed(wPc[w])
    /\ \A w \in Workers :
          /\ wPc[w] \in {"free", "dial", "version", "addr"}
          /\ Timed(wPc[w]) => ~TimerExpired(wTimer[w])
          /\ wPc[w] = "version" => ~SenderReady(lVersion, onVersionLeaked)
          /\ wPc[w] = "addr" => ~SenderReady(lAddr, onAddrLeaked)
    /\ creepPc' = IF creepPc = "sleep" THEN "woke" ELSE creepPc
    /\ wTimer' = [w \in Workers |-> IF Timed(wPc[w]) THEN wTimer[w] + 1 ELSE wTimer[w]]
    /\ wElapsed' = [w \in Workers |-> IF Timed(wPc[w]) THEN wElapsed[w] + 1 ELSE wElapsed[w]]
    /\ amgr' = [ip \in IPs |-> AgeNode(amgr[ip])]
    /\ shutdownAge' = IF systemShutdown /= 0 /\ creepPc = "sleep"
                    THEN Min(shutdownAge + 1, 2) ELSE shutdownAge
    /\ UNCHANGED << systemShutdown, peers, todo, sleepI, wgCreep,
                    wPc, wAddr, wAttempt, wGood, wConn, listenerVars >>
    /\ UNCHANGED scn
    /\ UNCHANGED mainVars
    /\ UNCHANGED openConns
    /\ emptySeedAge' = Min(emptySeedAge + 1, IdleSleepSeconds)

CreepStep ==
    \/ CreepAddresses
    \/ CreepCount
    \/ CreepSeedFromDNS
    \/ CreepAddressesAgain
    \/ CreepIdleCheck
    \/ CreepSleepCheck
    \/ CreepSpawnShutdown
    \/ CreepSpawnWorker
    \/ CreepShutdownWait
    \/ CreepWait

WorkerStep(w) ==
    \/ WorkerNewOutboundPeer(w)
    \/ WorkerNewOutboundPeerFails(w)
    \/ WorkerAttempt(w)
    \/ WorkerDialFails(w)
    \/ WorkerDialOK(w)
    \/ WorkerRecvVersion(w)
    \/ WorkerRecvVersionLeaked(w)
    \/ WorkerVersionTimeout(w)
    \/ WorkerRecvAddr(w)
    \/ WorkerRecvAddrLeaked(w)
    \/ WorkerAddrTimeout(w)

Next ==
    \/ CreepStep
    \/ \E w \in Workers : WorkerStep(w)
    \/ \E w \in Workers : OnVersion(w)
    \/ \E w \in Workers : OnAddr(w)
    \/ Shutdown
    \/ Tick

Spec == Init /\ [][Next]_vars

\* the whole process, from the start of main to its end
MainInit ==
    /\ amgr = [ip \in IPs |-> NoNode]
    /\ scn = ScnOff
    /\ mainPc = "loadConfig"
    /\ dnsPc = "none"
    /\ storePc = "none"
    /\ wg = 0
    /\ amgrQuit = "open"
    /\ exitCode = -1
    /\ systemShutdown = 0
    /\ shutdownAge = 0
    /\ creepPc = "unspawned"
    /\ peers = {}
    /\ todo = {}
    /\ sleepI = 0
    /\ wgCreep = 0
    /\ wPc = [w \in Workers |-> "free"]
    /\ wAddr = [w \in Workers |-> 0]
    /\ wTimer = [w \in Workers |-> 0]
    /\ wElapsed = [w \in Workers |-> 0]
    /\ wAttempt = [w \in Workers |-> FALSE]
    /\ wGood = [w \in Workers |-> FALSE]
    /\ wConn = [w \in Workers |-> "none"]
    /\ lVersion = [w \in Workers |-> "none"]
    /\ lAddr = [w \in Workers |-> "none"]
    /\ onVersionLeaked = 0
    /\ onAddrLeaked = 0
    /\ openConns = 0
    /\ emptySeedAge = IdleSleepSeconds

MainStep ==
    \/ MainInitStep
    \/ MainExit1
    \/ MainSeeder
    \/ MainLookupHost
    \/ MainSeedIgnored
    \/ MainInject
    \/ MainSpawnCreep
    \/ MainSpawnDns
    \/ MainInterrupt
    \/ MainCloseQuit
    \/ MainWgWait
    \/ MainAmgrWait

MainNext ==
    \/ MainStep
    \/ CreepStep
    \/ \E w \in Workers : WorkerStep(w)
    \/ \E w \in Workers : OnVersion(w)
    \/ \E w \in Workers : OnAddr(w)
    \/ DnsStops
    \/ StoreStops
    \/ Tick

MainSpec == MainInit /\ [][MainNext]_vars

\* the scheduler runs every goroutine that can take a step, and time passes
FairSpec ==
    /\ Spec
    /\ WF_vars(CreepStep)
    /\ \A w \in Workers : WF_vars(WorkerStep(w))
    /\ WF_vars(Tick)

\* ----------------------------------------------------------- claims
Running(w) == wPc[w] /= "free"

\* C1: whenever amgr.Good(ip) has been called for the peer of a running
\* worker, that worker has already called amgr.Attempt(ip).
C1_AttemptBeforeGood == \A w \in Workers : wGood[w] => wAttempt[w]

C1_Witness == \E w \in Workers : wGood[w] /\ wAttempt[w]

\* C2: a worker that ends by a dial failure or by the version timeout has not
\* had amgr.Good called for its peer.
C2_NoGoodOnFailure ==
    [][\A w \in Workers :
          (wPc[w] \in {"dial", "version"} /\ wPc'[w] = "free") => ~wGood[w]]_vars

\* C3: no two running workers target the same ip, and the creep loop is
\* between two rounds (about to call amgr.Addresses(), seeding, or in its idle
\* sleep) only when no worker is running.
C3_OneWorkerPerIP ==
    /\ \A v, w \in Workers :
          (v /= w /\ Running(v) /\ Running(w)) => wAddr[v] /= wAddr[w]
    /\ creepPc \in {"addresses", "count", "seed", "addresses2", "idleCheck",
                    "sleep", "woke"}
          => (wgCreep = 0 /\ \A w \in Workers : ~Running(w))

C3_Witness == \A w \in Workers : Running(w)

\* C4: the number of workers running at the same time never exceeds the
\* parallelism bound N, also when the batch of candidates is larger than N.
C4_BoundedFanOut == Cardinality({w \in Workers : Running(w)}) <= ParallelismBound

\* C5: once the shutdown flag is set, creep eventually returns.
C5_ShutdownReturns == (systemShutdown /= 0) ~> (creepPc = "returned")

C5_Witness == creepPc = "returned" /\ systemShutdown /= 0

\* C6: once creep has observed the shutdown flag no worker is started, and
\* when creep has returned no worker is running.
C6_NoSpawnAfterShutdown ==
    /\ [][(creepPc \in {"shutdownWait", "returned"}) =>
             (\A w \in Workers : (wPc[w] = "free") => (wPc'[w] = "free"))]_vars
    /\ [](creepPc = "returned" => (wgCreep = 0 /\ \A w \in Workers : ~Running(w)))

C6_Witness == creepPc = "shutdownWait" /\ wgCreep > 0

\* C7 as stated: no worker runs longer than 6 seconds (two timeouts) after it
\* started to dial.
C7_SixSeconds == \A w \in Workers : wElapsed[w] <= 2 * nodeTimeout

\* C7 as amended: no worker runs longer than 9 seconds (the three timeouts of
\* the dial, the version wait and the addr wait) after it started to dial.
C7_NineSeconds == \A w \in Workers : wElapsed[w] <= 3 * nodeTimeout

C7_Witness == \E w \in Workers : wPc[w] = "addr" /\ wElapsed[w] = 3 * nodeTimeout

\* C8: creep spends at most one second of its idle sleep with the shutdown
\* flag set: the flag is noticed when the second in which it was set ends, and
\* creep returns instead of sleeping on.
C8_PromptIdleShutdown == shutdownAge <= 1

C8_Witness ==
    creepPc = "woke" /\ systemShutdown /= 0 /\ shutdownAge = 1 /\ sleepI = 1

\* C9: when creep is about to invoke connmgr.SeedFromDNS the address manager
\* holds no address.
C9_SeedOnlyWhenEmpty == creepPc = "seed" => AddressCount(amgr) = 0

C9_Witness == creepPc = "seed" /\ AddressCount(amgr) = 0

\* C10: every node that was attempted and has succeeded has
\* lastSuccess <= lastAttempt, that is, its success is at least as old as its
\* last attempt.
C10_SuccessNotAfterAttempt ==
    \A ip \in IPs :
        (amgr[ip].present /\ amgr[ip].attempted /\ amgr[ip].succeeded)
            => amgr[ip].successAge >= amgr[ip].attemptAge

C10_Witness ==
    \E ip \in IPs : /\ amgr[ip].succeeded
                    /\ amgr[ip].successAge > amgr[ip].attemptAge

\* C11: in the single-seed scenario (empty store, one injected seed S, the
\* handshake with S delivers the version message and then one batch of k
\* distinct unknown addresses within the timeouts, the batch fitting under the
\* cap), when the round completes the store holds k + 1 entries and S is the
\* only good one.
C11_SeedRound ==
    (scn.stage = "done" /\ scn.k + 1 <= StoreCap)
        => /\ AddressCount(amgr) = scn.k + 1
           /\ GoodAddresses(amgr) = {scn.seed}

C11_Witness == scn.stage = "done" /\ scn.k = 1 /\ AddressCount(amgr) = 2

\* C12: the quit channel of the address manager is closed only after the
\* shutdown flag is set, and main reports "shutdown complete" only when creep
\* has returned, the DNS responder has ended and the tasks of the address
\* manager have ended.
C12_ShutdownOrder ==
    /\ amgrQuit = "closed" => systemShutdown /= 0
    /\ mainPc = "complete" =>
          /\ amgrQuit = "closed"
          /\ creepPc = "returned"
          /\ dnsPc = "done"
          /\ storePc = "done"

C12_Witness == mainPc = "complete" /\ \E ip \in IPs : amgr[ip].attempted

\* C13: a failure of loadConfig, NewManager or Atoi leads to exit code 1 and
\* nothing else, with neither creep nor the DNS responder started; an
\* unresolved seed host leads on to the start of creep with the address
\* manager as it was.
C13_InitFailureExits ==
    /\ [](mainPc \in {"failed", "exited"} =>
             (creepPc = "unspawned" /\ dnsPc = "none"))
    /\ [](exitCode = 1 <=> mainPc = "exited")
    /\ [][mainPc = "failed" => (mainPc' = "exited" /\ exitCode' = 1)]_vars
    /\ [][mainPc = "unresolved" =>
             (mainPc' = "spawnCreep" /\ amgr' = amgr /\ exitCode' = -1)]_vars

C13_Witness == exitCode = 1 /\ storePc = "running"

\* C14: the address manager never holds more entries than its cap, whichever
\* way the AddAddresses calls of the OnAddr listeners, of the bootstrap
\* callback and of the seed injection and the Good calls interleave.
C14_StoreCap == AddressCount(amgr) <= StoreCap

\* a batch of k unknown addresses came in with one entry in the store, and
\* the part of it beyond the cap was rejected
C14_Witness ==
    /\ scn.stage = "addr"
    /\ scn.k + 1 > StoreCap
    /\ AddressCount(amgr) = StoreCap

\* C15: when a worker calls amgr.Attempt(ip), ip was never attempted before
\* or its last attempt is at least 60 seconds old.
C15_AttemptFloor ==
    [][\A w \in Workers :
          (wPc[w] = "attempt" /\ wPc'[w] = "dial") =>
              \/ ~amgr[wAddr[w]].attempted
              \/ amgr[wAddr[w]].attemptAge >= AttemptInterval]_vars

\* a worker is about to attempt an address for the second time
C15_Witness ==
    \E w \in Workers : /\ wPc[w] = "attempt"
                        /\ amgr[wAddr[w]].attempted
                        /\ amgr[wAddr[w]].attemptAge >= AttemptInterval

\* C16: the open connections are those of the running workers that have
\* associated one: a worker that ends, by the version timeout, by the addr
\* timeout or after the addr message, leaves no connection behind.
C16_DisconnectAtEnd ==
    openConns = Cardinality({w \in Workers : wConn[w] = "associated"})

\* the workers have ended and one of them had completed a version exchange
C16_Witness ==
    /\ \A w \in Workers : ~Running(w)
    /\ \E ip \in IPs : amgr[ip].succeeded
    /\ openConns = 0

\* C17: with the shutdown flag set creep starts no new round: it makes no
\* amgr.Addresses() call and no connmgr.SeedFromDNS call.
C17_NoRoundAfterShutdown ==
    [][systemShutdown /= 0 =>
          /\ creepPc \in {"addresses", "addresses2"} => creepPc' = creepPc
          /\ creepPc = "seed" => creepPc' = "seed"]_vars

\* C18: when creep invokes connmgr.SeedFromDNS, at least 600 seconds have
\* passed since the last invocation that yielded no address (emptySeedAge is
\* saturated also when there was none).
C18_FullIdleBetweenBootstraps ==
    [][(creepPc = "seed" /\ creepPc' = "addresses2")
          => emptySeedAge >= IdleSleepSeconds]_vars

\* the idle sleep that follows an empty bootstrap is in its last second
C18_Witness ==
    /\ creepPc = "woke"
    /\ sleepI + 1 = IdleSleepSeconds
    /\ AddressCount(amgr) = 0
    /\ systemShutdown = 0
    /\ emptySeedAge = IdleSleepSeconds

\* C19: a worker leaves its version wait by the receive only when the
\* notification it takes is the one of its own peer's OnVersion listener, and
\* leaves its addr wait by the receive only when its own peer's OnAddr
\* listener is sending.
C19_OwnPeerOnly ==
    [][\A w \in Workers :
          /\ (wPc[w] = "version" /\ wPc'[w] = "addr") =>
                (lVersion[w] = "blocked" /\ lVersion'[w] = "returned")
          /\ (wPc[w] = "addr" /\ wPc'[w] = "free" /\ ~TimerExpired(wTimer[w])) =>
                lAddr[w] = "blocked"]_vars

\* a listener is blocked in its send on onVersion or onAddr
SenderBlocked ==
    \/ SenderReady(lVersion, onVersionLeaked)
    \/ SenderReady(lAddr, onAddrLeaked)

\* a worker receives from onVersion or onAddr
Receive ==
    \E w \in Workers :
        \/ WorkerRecvVersion(w)
        \/ WorkerRecvVersionLeaked(w)
        \/ WorkerRecvAddr(w)
        \/ WorkerRecvAddrLeaked(w)

\* C20: no listener stays blocked in its send for ever: time and again no
\* sender is blocked, or a worker receives from one of the channels.
C20_SendsReceived ==
    \/ []<>(~SenderBlocked)
    \/ []<><<Receive>>_vars

\* C21: a worker that ends, by whichever exit, has called amgr.Attempt for
\* its candidate.
C21_AttemptOnEveryExit ==
    [][\A w \in Workers :
          (Running(w) /\ wPc'[w] = "free") => wAttempt[w]]_vars

====
